---------------------------- MODULE Spec2Model ----------------------------
(***************************************************************************)
(* A model of app.py, the product inventory API (Flask, Flask-SQLAlchemy   *)
(* on SQLite, flask_jwt_extended).                                         *)
(*                                                                         *)
(* The state is the products table, the set of access tokens login has     *)
(* handed out, and the last request with its response.  Every route        *)
(* handler is one operator from (store, inputs) to (response, store), and  *)
(* one action applies it.  The libraries are modelled by what the calls    *)
(* in app.py make them do with their defaults (the file registers no       *)
(* custom JWT loaders and passes page and per_page positionally, the       *)
(* Flask-SQLAlchemy 2.x signature):                                        *)
(*   - an exception escaping a handler reaches handle_exception (500) and  *)
(*     the session is discarded, so nothing of the request is persisted;   *)
(*   - get_or_404 aborts with NotFound, which not_found turns into 404;    *)
(*   - SQLite gives a new row the id max(id)+1 (INTEGER PRIMARY KEY        *)
(*     without AUTOINCREMENT), so the id of a deleted last row is reused;  *)
(*   - jwt_required answers 401 to a request without a token or with an    *)
(*     expired one, and 422 to a token that does not verify.               *)
(***************************************************************************)
EXTENDS Integers, Sequences, FiniteSets, TLC

(* ------------------------------ bounds -------------------------------- *)

\* Largest product id the store hands out in Spec.
MaxId == 3

\* Number of seeded products in the largest initial table of SpecList and SpecSell.
MaxSeed == 3

\* Largest page and per_page query arguments tried.
MaxPage == 3

MaxPerPage == 2

\* Largest quantity a sell request asks for.
MaxQuantity == 2

(* --------------------------- JSON values ------------------------------ *)

\* A value of a JSON body or of a query argument: a missing key, null, a
\* string or a number.
Absent == [kind |-> "absent", str |-> "", num |-> 0]

Null == [kind |-> "null", str |-> "", num |-> 0]

Str(s) == [kind |-> "str", str |-> s, num |-> 0]

Num(n) == [kind |-> "num", str |-> "", num |-> n]

\* dict.get(key): None for a missing key.
DictGet(v) == IF v = Absent THEN Null ELSE v

\* dict.get(key, default)
DictGetDefault(v, default) == IF v = Absent THEN default ELSE v

\* Python truth of a JSON value: None, "" and 0 are falsy.
Truthy(v) ==
    \/ v.kind = "str" /\ v.str # ""
    \/ v.kind = "num" /\ v.num # 0

Barcodes == {"b1", "b2"}

Names == {"n1", "n2"}

Prices == {5, 7}

Usernames == {"admin", "bob"}

Passwords == {"password", "wrong"}

\* The bodies POST /api/products is tried with: each key missing, falsy or set.
ProductData ==
    [barcode : {Absent, Str("")} \cup {Str(b) : b \in Barcodes},
     name : {Absent, Str(""), Str("n1")},
     price : {Absent, Num(0), Num(5)}]

\* The bodies POST /api/products/protected is tried with.
ProtectedData ==
    [barcode : {Absent, Str("")} \cup {Str(b) : b \in Barcodes},
     name : {Str("n1")},
     price : {Num(0), Num(5)}]

\* The bodies PUT /api/products/<id> is tried with: each key missing, null or set.
UpdateData ==
    [name : {Absent, Null} \cup {Str(n) : n \in Names},
     price : {Absent} \cup {Num(p) : p \in Prices}]

QuantityInputs == {Absent} \cup {Num(q) : q \in 0..MaxQuantity}

PageInputs == {Absent} \cup {Num(p) : p \in (-1)..MaxPage}

PerPageInputs == {Absent} \cup {Num(p) : p \in (-1)..MaxPerPage}

LoginData ==
    [username : {Absent} \cup {Str(u) : u \in Usernames},
     password : {Absent} \cup {Str(p) : p \in Passwords}]

(* ------------------------------ state --------------------------------- *)

VARIABLES
    products,   \* the products table: a set of rows [id, barcode, name, price]
    issued,     \* the access tokens login has returned
    req,        \* the last request
    resp,       \* its response [status, body]
    sell,       \* SpecSell: the sell requests in flight, one per worker
    gone        \* history: the ids deleted and not assigned again since

vars == <<products, issued, req, resp, sell, gone>>

(* --------------------------- the table -------------------------------- *)

Ids(store) == {p.id : p \in store}

Max(S) == CHOOSE m \in S : \A x \in S : x <= m

\* The rowid SQLite gives the next inserted row.
NextId(store) == IF store = {} THEN 1 ELSE Max(Ids(store)) + 1

\* Product.query.get(id)
Row(store, id) == CHOOSE p \in store : p.id = id

\* The rows in the order a query without ORDER BY returns them: by rowid.
RECURSIVE Rows(_)
Rows(store) ==
    IF store = {} THEN <<>>
    ELSE LET last == Row(store, Max(Ids(store)))
         IN  Append(Rows(store \ {last}), last)

\* Product.to_dict
to_dict(p) == [id |-> p.id, barcode |-> p.barcode, name |-> p.name, price |-> p.price]

\* hasattr(product, attribute): a row carries the mapped columns of Product.
HasAttr(p, attribute) == attribute \in DOMAIN p

\* Violates without the unique constraint on barcode.
Violates_not_unique(store, row) ==
    row.barcode = Null \/ row.name = Null \/ row.price = Null

\* The column constraints of Product, checked at commit: nullable=False on
\* barcode, name and price, unique=True on barcode.
Violates(store, row) ==
    \/ row.barcode = Null \/ row.name = Null \/ row.price = Null
    \/ \E p \in store : p.id # row.id /\ p.barcode = row.barcode.str

\* Product(barcode, name, price); db.session.add; db.session.commit.
\* ok = FALSE stands for the IntegrityError the commit raises.
Insert(store, barcode, name, price) ==
    LET row == [id |-> NextId(store), barcode |-> barcode, name |-> name, price |-> price]
        stored == [id |-> row.id, barcode |-> barcode.str, name |-> name.str,
                   price |-> price.num]
    IN  IF Violates(store, row)
        THEN [ok |-> FALSE, store |-> store, product |-> stored]
        ELSE [ok |-> TRUE, store |-> store \cup {stored}, product |-> stored]

(* --------------------------- responses -------------------------------- *)

Response(status, body, store) == [status |-> status, body |-> body, store |-> store]

\* handle_exception
handle_exception(store) == Response(500, [error |-> "An error occurred"], store)

\* not_found
not_found(store) == Response(404, [error |-> "Resource not found"], store)

(* ---------------------------- handlers -------------------------------- *)

\* add_product with the check of price left out.
add_product_price_unchecked(store, data) ==
    IF ~Truthy(DictGet(data.barcode)) \/ ~Truthy(DictGet(data.name))
    THEN Response(400, [error |-> "Missing required fields"], store)
    ELSE LET r == Insert(store, data.barcode, data.name, data.price)
         IN  IF r.ok THEN Response(201, to_dict(r.product), r.store)
             ELSE handle_exception(store)

\* POST /api/products
add_product(store, data) ==
    IF ~Truthy(DictGet(data.barcode)) \/ ~Truthy(DictGet(data.name))
          \/ ~Truthy(DictGet(data.price))
    THEN Response(400, [error |-> "Missing required fields"], store)
    ELSE LET r == Insert(store, data.barcode, data.name, data.price)
         IN  IF r.ok THEN Response(201, to_dict(r.product), r.store)
             ELSE handle_exception(store)

\* create_access_token(identity={'username': username}): a token signed with
\* JWT_SECRET_KEY that carries the identity.
create_access_token(username) == [signature |-> "valid", username |-> username]

\* A request without an Authorization header.
NoToken == [signature |-> "none", username |-> ""]

\* What a client can send as bearer token: nothing, a token whose signature
\* does not verify, or a token signed with the secret, for any username.
Tokens ==
    {NoToken}
        \cup {[signature |-> "invalid", username |-> u] : u \in Usernames}
        \cup {create_access_token(u) : u \in Usernames}

\* jwt_required decoding the token without verifying its signature.
jwt_required_unverified(token, expired) ==
    IF token.signature = "none" THEN 401
    ELSE IF expired THEN 401
    ELSE 0

\* @jwt_required() with the default loaders: the status it answers with
\* instead of calling the view, or 0 when the token is accepted.
jwt_required(token, expired) ==
    IF token.signature = "none" THEN 401
    ELSE IF token.signature # "valid" THEN 422
    ELSE IF expired THEN 401
    ELSE 0

\* get_jwt_identity()
get_jwt_identity(token) == [username |-> token.username]

\* POST /api/products/protected
add_product_protected(store, token, expired, data) ==
    IF jwt_required(token, expired) # 0
    THEN Response(jwt_required(token, expired), [msg |-> "token rejected"], store)
    ELSE IF get_jwt_identity(token).username # "admin"
    THEN Response(403, [error |-> "Unauthorized"], store)
    ELSE IF Absent \in {data.barcode, data.name, data.price}
    THEN handle_exception(store)
    ELSE LET r == Insert(store, data.barcode, data.name, data.price)
         IN  IF r.ok THEN Response(201, to_dict(r.product), r.store)
             ELSE handle_exception(store)

\* GET /api/products/<id>
get_product(store, id) ==
    IF id \notin Ids(store) THEN not_found(store)
    ELSE Response(200, to_dict(Row(store, id)), store)

\* update_product reading the fields with data.get(key): a field the body
\* omits is overwritten with an empty value.
update_product_overwrite(store, id, data) ==
    IF id \notin Ids(store) THEN not_found(store)
    ELSE LET product == Row(store, id)
             stored == [id |-> id, barcode |-> product.barcode, name |-> data.name.str,
                        price |-> data.price.num]
         IN  Response(200, to_dict(stored), (store \ {product}) \cup {stored})

\* PUT /api/products/<id>
update_product(store, id, data) ==
    IF id \notin Ids(store) THEN not_found(store)
    ELSE LET product == Row(store, id)
             row == [id |-> id, barcode |-> Str(product.barcode),
                     name |-> DictGetDefault(data.name, Str(product.name)),
                     price |-> DictGetDefault(data.price, Num(product.price))]
             stored == [id |-> id, barcode |-> product.barcode, name |-> row.name.str,
                        price |-> row.price.num]
         IN  IF Violates(store, row) THEN handle_exception(store)
             ELSE Response(200, to_dict(stored), (store \ {product}) \cup {stored})

\* delete_product without the commit: the row stays.
delete_product_uncommitted(store, id) ==
    IF id \notin Ids(store) THEN not_found(store)
    ELSE Response(200, [message |-> "Product deleted"], store)

\* DELETE /api/products/<id>
delete_product(store, id) ==
    IF id \notin Ids(store) THEN not_found(store)
    ELSE Response(200, [message |-> "Product deleted"], store \ {Row(store, id)})

\* request.args.get('page', 1, type=int)
DefaultPage == 1

\* request.args.get('per_page', 10, type=int)
DefaultPerPage == 10

\* The per_page that paginate falls back to for a negative one when
\* error_out is False.
PaginatePerPage == 20

\* query.limit(limit).offset(offset).all()
LimitOffset(rows, limit, offset) ==
    IF offset >= Len(rows) \/ limit = 0 THEN <<>>
    ELSE SubSeq(rows, offset + 1,
                IF offset + limit < Len(rows) THEN offset + limit ELSE Len(rows))

\* Pagination.pages: int(ceil(total / float(per_page))), 0 when per_page is 0.
Pages(total, per_page) ==
    IF per_page = 0 THEN 0 ELSE (total + per_page - 1) \div per_page

\* paginate counting pages from 0: the offset is page * per_page.
paginate_zero_indexed(store, page, per_page) ==
    LET pg == IF page < 1 THEN 1 ELSE page
        pp == IF per_page < 0 THEN PaginatePerPage ELSE per_page
    IN  [items |-> LimitOffset(Rows(store), pp, pg * pp),
         total |-> Cardinality(store),
         pages |-> Pages(Cardinality(store), pp),
         page |-> pg]

\* Product.query.paginate(page, per_page, error_out=False)
paginate(store, page, per_page) ==
    LET pg == IF page < 1 THEN 1 ELSE page
        pp == IF per_page < 0 THEN PaginatePerPage ELSE per_page
    IN  [items |-> LimitOffset(Rows(store), pp, (pg - 1) * pp),
         total |-> Cardinality(store),
         pages |-> Pages(Cardinality(store), pp),
         page |-> pg]

\* GET /api/products
get_products(store, page_arg, per_page_arg) ==
    LET page == DictGetDefault(page_arg, Num(DefaultPage)).num
        per_page == DictGetDefault(per_page_arg, Num(DefaultPerPage)).num
        found == paginate(store, page, per_page)
    IN  Response(200,
                 [products |-> [i \in 1..Len(found.items) |-> to_dict(found.items[i])],
                  total |-> found.total,
                  pages |-> found.pages,
                  current_page |-> found.page],
                 store)

\* POST /api/products/sell/<id>.  Product maps no stock column, so reading
\* product.stock raises AttributeError before the comparison.
sell_product(store, id, quantity_arg) ==
    IF id \notin Ids(store) THEN not_found(store)
    ELSE LET product == Row(store, id)
             quantity == DictGetDefault(quantity_arg, Num(1)).num
         IN  IF ~HasAttr(product, "stock") THEN handle_exception(store)
             ELSE IF product.stock < quantity
             THEN Response(400, [error |-> "Not enough stock"], store)
             ELSE LET sold == [product EXCEPT !.stock = @ - quantity]
                  IN  Response(200, to_dict(sold), (store \ {product}) \cup {sold})

\* login comparing the username only.
login_any_password(data) ==
    LET username == DictGet(data.username)
    IN  IF username = Str("admin")
        THEN [status |-> 200, token |-> create_access_token(username.str)]
        ELSE [status |-> 401, token |-> NoToken]

\* login comparing the password only.
login_any_username(data) ==
    LET username == DictGet(data.username)
        password == DictGet(data.password)
    IN  IF username.kind = "str" /\ password = Str("password")
        THEN [status |-> 200, token |-> create_access_token(username.str)]
        ELSE [status |-> 401, token |-> NoToken]

\* POST /login.  token is the issued token, NoToken when none is.
login(data) ==
    LET username == DictGet(data.username)
        password == DictGet(data.password)
    IN  IF username = Str("admin") /\ password = Str("password")
        THEN [status |-> 200, token |-> create_access_token(username.str)]
        ELSE [status |-> 401, token |-> NoToken]

(* ----------------------------- actions -------------------------------- *)

\* The workers that serve sell requests concurrently in SpecSell.
Workers == {1, 2}

NoRow == [id |-> 0, barcode |-> "", name |-> "", price |-> 0]

Idle == [pc |-> "idle", id |-> 0, quantity_arg |-> Absent, product |-> NoRow,
         quantity |-> 0, status |-> 0]

\* The ids requests are made for: those the store can hold and one beyond.
RequestIds == 1..(MaxId + 1)

Respond(r) ==
    /\ resp' = [status |-> r.status, body |-> r.body]
    /\ products' = r.store

Create ==
    /\ NextId(products) <= MaxId
    /\ \E data \in ProductData :
         /\ req' = [op |-> "create", data |-> data]
         /\ Respond(add_product(products, data))
    /\ gone' = gone \ Ids(products')
    /\ UNCHANGED <<issued, sell>>

CreateProtected ==
    /\ NextId(products) <= MaxId
    /\ \E data \in ProtectedData, token \in Tokens :
       \E expired \in {e \in BOOLEAN : e => token.signature = "valid"} :
         /\ req' = [op |-> "create_protected", data |-> data, token |-> token,
                    expired |-> expired]
         /\ Respond(add_product_protected(products, token, expired, data))
    /\ gone' = gone \ Ids(products')
    /\ UNCHANGED <<issued, sell>>

Get ==
    /\ \E id \in RequestIds :
         /\ req' = [op |-> "get", id |-> id]
         /\ Respond(get_product(products, id))
    /\ UNCHANGED <<issued, sell, gone>>

Update ==
    /\ \E id \in RequestIds, data \in UpdateData :
         /\ req' = [op |-> "update", id |-> id, data |-> data]
         /\ Respond(update_product(products, id, data))
    /\ UNCHANGED <<issued, sell, gone>>

Delete ==
    /\ \E id \in RequestIds :
         /\ req' = [op |-> "delete", id |-> id]
         /\ Respond(delete_product(products, id))
         /\ gone' = IF resp'.status = 200 THEN gone \cup {id} ELSE gone
    /\ UNCHANGED <<issued, sell>>

List ==
    /\ \E page \in PageInputs, per_page \in PerPageInputs :
         /\ req' = [op |-> "list", page |-> page, per_page |-> per_page]
         /\ Respond(get_products(products, page, per_page))
    /\ UNCHANGED <<issued, sell, gone>>

Sell ==
    /\ \E id \in RequestIds, quantity \in QuantityInputs :
         /\ req' = [op |-> "sell", id |-> id, quantity |-> quantity]
         /\ Respond(sell_product(products, id, quantity))
    /\ UNCHANGED <<issued, sell, gone>>

Login ==
    /\ \E data \in LoginData :
         LET r == login(data)
         IN  /\ req' = [op |-> "login", data |-> data]
             /\ resp' = [status |-> r.status,
                         body |-> IF r.status = 200
                                  THEN [access_token |-> r.token]
                                  ELSE [error |-> "Invalid credentials"]]
             /\ issued' = IF r.status = 200 THEN issued \cup {r.token} ELSE issued
    /\ UNCHANGED <<products, sell, gone>>

(* ------------- sell_product, statement by statement ------------------- *)

\* A sell request arrives at worker w.
SellBegin(w) ==
    /\ sell[w].pc = "idle"
    /\ \E id \in 1..(MaxSeed + 1), quantity \in QuantityInputs :
         sell' = [sell EXCEPT ![w] = [Idle EXCEPT !.pc = "get", !.id = id,
                                                  !.quantity_arg = quantity]]
    /\ UNCHANGED <<products, issued, req, resp, gone>>

\* The statement of sell_product worker w is at.  Each worker holds its own
\* session, so product is its private copy of the row until the commit.
SellStep(w) ==
    LET r == sell[w]
        Goto(pc) == sell' = [sell EXCEPT ![w].pc = pc]
        Return(status) == sell' = [sell EXCEPT ![w].pc = "done", ![w].status = status]
    IN  /\ r.pc \notin {"idle", "done"}
        /\ IF r.pc = "get"
           THEN \* product = Product.query.get_or_404(id)
                /\ IF r.id \notin Ids(products) THEN Return(404)
                   ELSE sell' = [sell EXCEPT ![w].pc = "quantity",
                                             ![w].product = Row(products, r.id)]
                /\ UNCHANGED products
           ELSE IF r.pc = "quantity"
           THEN \* quantity = request.json.get('quantity', 1)
                /\ sell' = [sell EXCEPT ![w].pc = "check",
                              ![w].quantity = DictGetDefault(r.quantity_arg, Num(1)).num]
                /\ UNCHANGED products
           ELSE IF r.pc = "check"
           THEN \* if product.stock < quantity: AttributeError, no such attribute
                /\ IF ~HasAttr(r.product, "stock") THEN Return(500)
                   ELSE IF r.product.stock < r.quantity THEN Return(400)
                   ELSE Goto("decrement")
                /\ UNCHANGED products
           ELSE IF r.pc = "decrement"
           THEN \* product.stock -= quantity
                /\ sell' = [sell EXCEPT ![w].pc = "commit",
                              ![w].product = [r.product EXCEPT !.stock = @ - r.quantity]]
                /\ UNCHANGED products
           ELSE \* db.session.commit(): UPDATE product SET stock = ... WHERE id = ...
                /\ r.pc = "commit"
                /\ IF r.id \notin Ids(products)
                   THEN Return(500) /\ UNCHANGED products
                   ELSE /\ Return(200)
                        /\ products' =
                             (products \ {Row(products, r.id)})
                                \cup {[Row(products, r.id) EXCEPT !.stock = r.product.stock]}
        /\ UNCHANGED <<issued, req, resp, gone>>

(* ------------------------- specifications ----------------------------- *)

Init ==
    /\ products = {}
    /\ issued = {}
    /\ req = [op |-> "none"]
    /\ resp = [status |-> 0, body |-> [message |-> ""]]
    /\ sell = [w \in Workers |-> Idle]
    /\ gone = {}

\* The product routes without authentication, one request after another.
Next ==
    \/ Create
    \/ Get
    \/ Update
    \/ Delete
    \/ Sell

Spec == Init /\ [][Next]_vars

\* Login and the protected route.
NextAuth ==
    \/ Login
    \/ CreateProtected

SpecAuth == Init /\ [][NextAuth]_vars

\* A table of n products, as n creates leave it.
Seed(n) ==
    {[id |-> i, barcode |-> "b" \o ToString(i), name |-> "n1", price |-> 5] : i \in 1..n}

InitSeeded ==
    /\ products \in {Seed(n) : n \in 0..MaxSeed}
    /\ issued = {}
    /\ req = [op |-> "none"]
    /\ resp = [status |-> 0, body |-> [message |-> ""]]
    /\ sell = [w \in Workers |-> Idle]
    /\ gone = {}

\* The listing route over a seeded table.
NextList == List

SpecList == InitSeeded /\ [][NextList]_vars

\* Sell requests served concurrently over a seeded table.
NextSell == \E w \in Workers : SellBegin(w) \/ SellStep(w)

SpecSell == InitSeeded /\ [][NextSell]_vars

(* ------------------------------ claims -------------------------------- *)

\* The stock the claims speak of: the row's stock attribute, and zero for a
\* row that has none.
StockOf(p) == IF HasAttr(p, "stock") THEN p.stock ELSE 0

\* The quantity a sell request asks for, 1 when the body names none.
Requested(quantity_arg) == IF quantity_arg = Absent THEN 1 ELSE quantity_arg.num

\* C1 as claimed: of two sell requests for quantity 1 served concurrently on
\* the same stored product, once both have returned, exactly one succeeded
\* (200) and the other was rejected for insufficient stock (400); and no
\* stored stock is ever negative.
C1_ExactlyOneSellSucceeds ==
    /\ \A v, w \in Workers :
         (/\ v # w
          /\ sell[v].pc = "done" /\ sell[w].pc = "done"
          /\ sell[v].id = sell[w].id /\ sell[v].id \in Ids(products)
          /\ Requested(sell[v].quantity_arg) = 1 /\ Requested(sell[w].quantity_arg) = 1)
            => {sell[v].status, sell[w].status} = {200, 400}
    /\ \A p \in products : StockOf(p) >= 0

\* C2 as claimed: a sell of quantity q on a stored product answers 400 and
\* leaves the product as it was when its stock is below q, and otherwise
\* answers 200 with the stored stock lowered by exactly q.
C2_SellChecksAndDecrements ==
    [][(req'.op = "sell" /\ req'.id \in Ids(products)) =>
         LET before == Row(products, req'.id)
             q == Requested(req'.quantity)
         IN  IF StockOf(before) < q
             THEN resp'.status = 400 /\ products' = products
             ELSE /\ resp'.status = 200
                  /\ req'.id \in Ids(products')
                  /\ StockOf(Row(products', req'.id)) = StockOf(before) - q]_vars

AllTruthy(data) == Truthy(data.barcode) /\ Truthy(data.name) /\ Truthy(data.price)

\* C3: no two stored products share a barcode, whatever requests came
\* before; a create whose barcode a stored product already has fails and
\* adds no record; a create with all three fields set and a barcode no
\* stored product has answers 201 with the barcode, name and price given.
C3_BarcodesUnique ==
    [][/\ \A p, q \in products' : p.barcode = q.barcode => p = q
       /\ (req'.op = "create" /\ AllTruthy(req'.data)) =>
            IF \E p \in products : p.barcode = req'.data.barcode.str
            THEN resp'.status >= 400 /\ products' = products
            ELSE /\ resp'.status = 201
                 /\ resp'.body.barcode = req'.data.barcode.str
                 /\ resp'.body.name = req'.data.name.str
                 /\ resp'.body.price = req'.data.price.num
                 /\ products' = products \cup {resp'.body}
                 /\ resp'.body \notin products]_vars

\* A create with the barcode of a stored product was refused.
C3_Witness ==
    /\ req.op = "create"
    /\ AllTruthy(req.data)
    /\ resp.status = 500
    /\ \E p \in products : p.barcode = req.data.barcode.str

\* C4: a create whose body lacks barcode, name or price answers 400 and
\* leaves the stored products as they were.
C4_MissingFieldRejected ==
    [][(req'.op = "create"
          /\ Absent \in {req'.data.barcode, req'.data.name, req'.data.price})
         => resp'.status = 400 /\ products' = products]_vars

\* A create lacking only its price was refused while a product was stored.
C4_Witness ==
    /\ req.op = "create"
    /\ req.data.price = Absent /\ Truthy(req.data.barcode) /\ Truthy(req.data.name)
    /\ resp.status = 400
    /\ products # {}

\* The token of a protected create is accepted: signed and not expired.
Accepted(r) == r.token.signature = "valid" /\ ~r.expired

C6_LoginOnlyAdmin ==
    [][req'.op = "login" =>
         IF req'.data = [username |-> Str("admin"), password |-> Str("password")]
         THEN /\ resp'.status = 200
              /\ resp'.body.access_token.signature = "valid"
              /\ resp'.body.access_token.username = req'.data.username.str
              /\ issued' = issued \cup {resp'.body.access_token}
         ELSE /\ resp'.status = 401
              /\ "access_token" \notin DOMAIN resp'.body
              /\ issued' = issued]_vars

\* The login of ("admin", "password") was answered 200 with a token for admin.
C6_Witness ==
    /\ req.op = "login"
    /\ req.data = [username |-> Str("admin"), password |-> Str("password")]
    /\ resp.status = 200
    /\ resp.body.access_token = create_access_token("admin")
    /\ resp.body.access_token \in issued

\* C7: an update of a stored product leaves every other product, the
\* product's id and barcode and each field its body omits as they were, and
\* sets the fields it answers 200 for; an update of an id that is not stored
\* answers 404 and changes nothing.
C7_UpdateFrame ==
    [][req'.op = "update" =>
         IF req'.id \notin Ids(products)
         THEN resp'.status = 404 /\ products' = products
         ELSE LET old == Row(products, req'.id)
                  new == Row(products', req'.id)
              IN  /\ req'.id \in Ids(products')
                  /\ products' \ {new} = products \ {old}
                  /\ new.barcode = old.barcode
                  /\ req'.data.name = Absent => new.name = old.name
                  /\ req'.data.price = Absent => new.price = old.price
                  /\ resp'.status = 200 =>
                       /\ req'.data.name # Absent => new.name = req'.data.name.str
                       /\ req'.data.price # Absent => new.price = req'.data.price.num
                       /\ resp'.body = new]_vars

\* A PUT with only a price changed the price of a product created with
\* price 5 and kept its name, beside another product.
C7_Witness ==
    /\ req.op = "update"
    /\ req.data = [name |-> Absent, price |-> Num(7)]
    /\ resp.status = 200
    /\ resp.body.price = 7 /\ resp.body.name = "n1"
    /\ Cardinality(products) = 2

\* C8: a GET, PUT, DELETE or sell on an id that was deleted and not assigned
\* again since, or that was never assigned, answers 404; and a successful
\* DELETE removes the product of that id and no other.
C8_DeletedStaysGone ==
    [][/\ (req'.op \in {"get", "update", "delete", "sell"}
             /\ (req'.id \in gone \/ req'.id \notin Ids(products) \cup gone))
            => resp'.status = 404
       /\ (req'.op = "delete" /\ resp'.status = 200)
            => /\ req'.id \in Ids(products)
               /\ products' = products \ {Row(products, req'.id)}
       /\ (req'.op = "get" /\ req'.id \in Ids(products))
            => resp'.status = 200 /\ resp'.body = Row(products, req'.id)]_vars

\* A GET on a deleted id was answered 404 while another product was stored.
C8_Witness ==
    /\ req.op = "get"
    /\ req.id \in gone
    /\ resp.status = 404
    /\ products # {}

\* The k-th product in id order.
Kth(store, k) == CHOOSE p \in store : Cardinality({q \in store : q.id < p.id}) = k - 1

\* C9: for page >= 1 and per_page >= 1 (1 and 10 when the query names none)
\* over N stored products, the listing answers 200 with total N, pages the
\* least k with k * per_page >= N, current_page the page asked for, and the
\* products at positions (page-1)*per_page+1 .. min(page*per_page, N) in
\* order: none when the page lies beyond the last.
C9_Pagination ==
    req.op = "list" =>
      LET page == IF req.page = Absent THEN 1 ELSE req.page.num
          per_page == IF req.per_page = Absent THEN 10 ELSE req.per_page.num
          N == Cardinality(products)
          first == (page - 1) * per_page + 1
          last == IF page * per_page < N THEN page * per_page ELSE N
          count == IF last >= first THEN last - first + 1 ELSE 0
      IN  (page >= 1 /\ per_page >= 1) =>
            /\ resp.status = 200
            /\ resp.body.total = N
            /\ resp.body.pages * per_page >= N
            /\ (resp.body.pages - 1) * per_page < N
            /\ resp.body.pages >= 0
            /\ resp.body.current_page = page
            /\ Len(resp.body.products) = count
            /\ \A i \in 1..count :
                 resp.body.products[i] = Kth(products, first + i - 1)

\* Page 2 of 3 products, one per page: the second product, total 3, pages 3.
C9_Witness ==
    /\ req.op = "list"
    /\ req.page = Num(2) /\ req.per_page = Num(1)
    /\ Cardinality(products) = 3
    /\ Len(resp.body.products) = 1
    /\ resp.body.products[1].id = 2
    /\ resp.body.total = 3 /\ resp.body.pages = 3 /\ resp.body.current_page = 2

\* C10: every token login has issued carries the username admin, and a
\* protected create bearing an issued token is never answered 403.
C10_RoleCheckDead ==
    [][/\ \A t \in issued' : t.username = "admin"
       /\ (req'.op = "create_protected" /\ req'.token \in issued)
            => resp'.status # 403]_vars

\* A protected create bearing an issued token stored a product.
C10_Witness ==
    /\ req.op = "create_protected"
    /\ req.token \in issued
    /\ resp.status = 201

=============================================================================
